---- MODULE Spec2Model ----
(***************************************************************************)
(* SentinelResponseConfig (config/sentinel_response_config.py): the       *)
(* process-wide configuration singleton.  The class attributes _instance   *)
(* and _lock, the attribute dictionaries of the objects it allocates, the  *)
(* files it reads and the position of every thread inside __new__, _load   *)
(* and reload are the state; one action per statement a thread switch can  *)
(* separate.  The second part models the managers (alerts, cases, users,   *)
(* tenants), the correlation engine and the timeline: their dicts and      *)
(* lists are the state, one action per method.                             *)
(* The third part models the logging of logmanager/log_manager.py: the    *)
(* buffering OpenSearch handler and the lazily configured logger, one     *)
(* action per statement a thread switch can separate.                    *)
(***************************************************************************)
EXTENDS Integers, FiniteSets, Sequences, TLC

\* ---------------------------------------------------------------- bounds
NThreads == 2
MaxCalls == 3
MaxWrites == 1
MaxEvents == 3
MaxStored == 3
MaxRecords == 3
MaxTime == 2
MaxGets == 3

\* The threads the program spawns are 1 .. NThreads; the thread that runs
\* the program itself (and the tests' assertions) comes after them and keeps
\* the outcome of its calls.
Workers == 1 .. NThreads
Main == NThreads + 1
Threads == Workers \cup {Main}

\* ------------------------------------------------------- values and files
\* The toml_path argument left out (toml_path=None).
None == "None"
\* DEFAULT_PATH = Path(__file__).parent / "config.toml"
DEFAULT_PATH == "config.toml"
\* Paths a caller passes; "missing.toml" never exists.
ArgPaths == {"A.toml", "B.toml", "missing.toml"}
ExistingPaths == {DEFAULT_PATH, "A.toml", "B.toml"}

\* A mapping with no key: the {} default of data.get(name, {}).
EmptyMap == [k \in {} |-> ""]

\* BASE_CONFIG and UPDATED_CONFIG of the tests, and a document that defines
\* main and a foreign table but neither notification nor log.
BASE_CONFIG ==
    [main |-> [foo |-> "bar"],
     notification |-> [email |-> "user@example.com"],
     log |-> [level |-> "DEBUG"]]
UPDATED_CONFIG ==
    [main |-> [foo |-> "baz"],
     notification |-> [email |-> "another@example.com"],
     log |-> [level |-> "INFO"]]
PARTIAL_CONFIG ==
    [main |-> [foo |-> "qux"],
     sentry |-> [dsn |-> "none"]]
Docs == {BASE_CONFIG, UPDATED_CONFIG, PARTIAL_CONFIG}

Sections == {"main", "notification", "log"}

\* ------------------------------------------------------------------ state
VARIABLES
    instance,   \* cls._instance: 0 is None, else the id of an object
    lock,       \* cls._lock: NoThread when free, else the thread holding it
    heap,       \* heap[o]: the attribute dictionary of object o
    fs,         \* the files that exist, path -> parsed document
    returned,   \* the references getInstance has handed out so far
    pc,         \* pc[t]: the statement thread t executes next
    op,         \* op[t]: "new" or "reload", the call t is in
    arg,        \* arg[t]: the toml_path argument of that call
    self,       \* self[t]: the object _load / reload work on
    path,       \* path[t]: the local variable path
    data,       \* data[t]: the local variable data of _load
    last,       \* the call of Main that ended last: op, argument, outcome
    pre,        \* the attributes of the receiver when Main's last reload began
    calls,      \* number of calls started
    writes,     \* number of file rewrites
    newLoads,   \* toml.load executions made by __new__
    newMissing, \* some __new__ call was given a path that does not exist
    newFailed,  \* a constructing call has raised FileNotFoundError
    lostRace,   \* a caller found the slot filled only once it held the lock
    constructed, \* the object whose constructing load has completed (0: none)
    failedReload, \* the object a reload of which has raised (0: none)
    lastLoaded, \* the path of the load that completed last
    lastUsed,   \* the path of the constructing call or of the last reload(path)
    alerts,     \* AlertManager.alerts
    cases,      \* CaseManager.cases
    users,      \* UserManager.users
    tenants,    \* TenantManager.tenants
    events,     \* TimelineManager.events
    call,       \* the manager, engine or timeline call that ended last
    hlock,      \* handler._lock: NoThread when free, else the thread holding it
    buffer,     \* handler._buffer: the documents waiting for the bulk request
    now,        \* time()
    last_flush, \* handler._last_flush
    lpc,        \* lpc[t]: the statement of emit / flush thread t executes next
    nested,     \* nested[t]: the flush t is in was called by its emit
    doc,        \* doc[t]: the local variable doc of emit (0: none)
    records,    \* number of emit calls started
    logger,     \* LogManager._logger: None or the name of a logger
    handlers,   \* handlers[name]: the handlers of logging.getLogger(name)
    gpc,        \* gpc[t]: the statement of get_logger thread t executes next
    lg,         \* lg[t]: the local variable logger of _configure_logger
    got,        \* got[t]: what get_logger returned to t last
    gets        \* number of get_logger calls started

shared == <<instance, lock, heap, fs, returned>>
locals == <<pc, op, arg, self, path, data>>
counters == <<calls, writes, newLoads>>
flags == <<newMissing, newFailed, lostRace, constructed, failedReload>>
ghosts == <<last, pre, counters, flags, lastLoaded, lastUsed>>
config == <<shared, locals, ghosts>>
stores == <<alerts, cases, users, tenants, events, call>>
handler == <<hlock, buffer, now, last_flush, lpc, nested, doc, records>>
manager == <<logger, handlers, gpc, lg, got, gets>>
logs == <<handler, manager>>
vars == <<config, stores, logs>>

\* ---------------------------------------------------------------- helpers
\* dict.get(key, default)
Get(d, key, default) == IF key \in DOMAIN d THEN d[key] ELSE default

\* obj.attr = v
SetAttr(d, a, v) == [x \in (DOMAIN d) \cup {a} |-> IF x = a THEN v ELSE d[x]]

HasAttr(o, a) == a \in DOMAIN heap[o]

\* Path(toml_path) if toml_path else <fallback>   (lines 55 and 86)
ResolvePath(toml_path, fallback) ==
    IF toml_path # None THEN toml_path ELSE fallback

\* toml_path.exists()
Exists(p) == p \in DOMAIN fs

\* The three sections a document yields.
SectionsOf(d) == [s \in Sections |-> Get(d, s, EmptyMap)]

\* The sections among the attributes d of an object.
Shown(d) == [s \in Sections \cap DOMAIN d |-> d[s]]

NoThread == Main + 1

InitialFs ==
    [p \in ExistingPaths |->
        IF p = "A.toml" THEN BASE_CONFIG
        ELSE IF p = "B.toml" THEN PARTIAL_CONFIG ELSE UPDATED_CONFIG]

\* A call's outcome: kind is "inst" (getInstance returned obj), "ok" (reload
\* of obj returned None) or the name of the exception raised (obj is the
\* receiver of a reload, 0 for __new__).
Outcome(o, a, k, v) == [op |-> o, arg |-> a, kind |-> k, obj |-> v]

\* _OpenSearchBulkHandler.__init__ (lines 23-25) with no thread inside the
\* handler, and LogManager._logger = None (line 68) with no logger made.
LogInit ==
    /\ hlock = NoThread
    /\ buffer = << >>
    /\ now = 0
    /\ last_flush = 0
    /\ lpc = [t \in Workers |-> "idle"]
    /\ nested = [t \in Workers |-> FALSE]
    /\ doc = [t \in Workers |-> 0]
    /\ records = 0
    /\ logger = None
    /\ handlers = EmptyMap
    /\ gpc = [t \in Workers |-> "idle"]
    /\ lg = [t \in Workers |-> None]
    /\ got = [t \in Workers |-> None]
    /\ gets = 0

Init ==
    /\ instance = 0
    /\ lock = NoThread
    /\ heap = << >>
    /\ fs = InitialFs
    /\ returned = {}
    /\ pc = [t \in Threads |-> "idle"]
    /\ op = [t \in Threads |-> "none"]
    /\ arg = [t \in Threads |-> None]
    /\ self = [t \in Threads |-> 0]
    /\ path = [t \in Threads |-> None]
    /\ data = [t \in Threads |-> EmptyMap]
    /\ last = Outcome("none", None, "none", 0)
    /\ pre = EmptyMap
    /\ calls = 0
    /\ writes = 0
    /\ newLoads = 0
    /\ newMissing = FALSE
    /\ newFailed = FALSE
    /\ lostRace = FALSE
    /\ constructed = 0
    /\ failedReload = 0
    /\ lastLoaded = None
    /\ lastUsed = None
    /\ alerts = << >>
    /\ cases = << >>
    /\ users = << >>
    /\ tenants = << >>
    /\ events = << >>
    /\ call = [op |-> "none", params |-> << >>, kind |-> "none", ret |-> << >>]
    /\ LogInit

\* The call of thread t ends with outcome (k, v): its locals die.
Finish(t, k, v) ==
    /\ pc' = [pc EXCEPT ![t] = "idle"]
    /\ op' = [op EXCEPT ![t] = "none"]
    /\ arg' = [arg EXCEPT ![t] = None]
    /\ self' = [self EXCEPT ![t] = 0]
    /\ path' = [path EXCEPT ![t] = None]
    /\ data' = [data EXCEPT ![t] = EmptyMap]
    /\ last' = IF t = Main THEN Outcome(op[t], arg[t], k, v) ELSE last

\* ------------------------------------------------------------ __new__
\* NewCall with a slot that a call naming a path empties first (the path
\* argument is honoured instead of ignored).
NewCall_PathRecreates(t, toml_path) ==
    /\ pc[t] = "idle"
    /\ calls < MaxCalls
    /\ calls' = calls + 1
    /\ op' = [op EXCEPT ![t] = "new"]
    /\ arg' = [arg EXCEPT ![t] = toml_path]
    /\ path' = [path EXCEPT ![t] = ResolvePath(toml_path, DEFAULT_PATH)]
    /\ newMissing' = (newMissing \/ ~Exists(path'[t]))
    /\ instance' = IF toml_path # None THEN 0 ELSE instance
    /\ pc' = [pc EXCEPT ![t] = IF instance' = 0 THEN "new_lock" ELSE "new_return"]
    /\ UNCHANGED <<lock, heap, fs, returned, self, data, last, pre, writes,
                   newLoads, newFailed, lostRace, constructed, failedReload,
                   lastLoaded, lastUsed>>
    /\ UNCHANGED <<stores, logs>>

\* NewCall with line 60 moved out of the guarded block: a call naming a path
\* records it on the instance already installed.
NewCall_RecordsPath(t, toml_path) ==
    /\ pc[t] = "idle"
    /\ calls < MaxCalls
    /\ calls' = calls + 1
    /\ op' = [op EXCEPT ![t] = "new"]
    /\ arg' = [arg EXCEPT ![t] = toml_path]
    /\ path' = [path EXCEPT ![t] = ResolvePath(toml_path, DEFAULT_PATH)]
    /\ newMissing' = (newMissing \/ ~Exists(path'[t]))
    /\ heap' = IF instance # 0 /\ toml_path # None
               THEN [heap EXCEPT ![instance] = SetAttr(@, "_toml_path", toml_path)]
               ELSE heap
    /\ pc' = [pc EXCEPT ![t] = IF instance = 0 THEN "new_lock" ELSE "new_return"]
    /\ UNCHANGED <<instance, lock, fs, returned, self, data, last, pre, writes,
                   newLoads, newFailed, lostRace, constructed, failedReload,
                   lastLoaded, lastUsed>>
    /\ UNCHANGED <<stores, logs>>

\* SentinelResponseConfig(toml_path).  Line 55 sets the local path; line 56,
\* if cls._instance is None, reads the slot with no lock held.
NewCall(t, toml_path) ==
    /\ pc[t] = "idle"
    /\ calls < MaxCalls
    /\ calls' = calls + 1
    /\ op' = [op EXCEPT ![t] = "new"]
    /\ arg' = [arg EXCEPT ![t] = toml_path]
    /\ path' = [path EXCEPT ![t] = ResolvePath(toml_path, DEFAULT_PATH)]
    /\ newMissing' = (newMissing \/ ~Exists(path'[t]))
    /\ pc' = [pc EXCEPT ![t] = IF instance = 0 THEN "new_lock" ELSE "new_return"]
    /\ UNCHANGED <<shared, self, data, last, pre, writes, newLoads, newFailed,
                   lostRace, constructed, failedReload, lastLoaded, lastUsed>>
    /\ UNCHANGED <<stores, logs>>

\* NewLock without the lock: the with statement left out.
NewLock_NoMutex(t) ==
    /\ pc[t] = "new_lock"
    /\ pc' = [pc EXCEPT ![t] = "new_recheck"]
    /\ UNCHANGED <<instance, lock, heap, fs, returned, op, arg, self, path,
                   data, ghosts>>
    /\ UNCHANGED <<stores, logs>>

\* with cls._lock:   (line 57)
NewLock(t) ==
    /\ pc[t] = "new_lock"
    /\ lock = NoThread
    /\ lock' = t
    /\ pc' = [pc EXCEPT ![t] = "new_recheck"]
    /\ UNCHANGED <<instance, heap, fs, returned, op, arg, self, path, data,
                   ghosts>>
    /\ UNCHANGED <<stores, logs>>

\* NewRecheck with the test of line 58 left out: whoever gets the lock
\* constructs.
NewRecheck_NoRecheck(t) ==
    /\ pc[t] = "new_recheck"
    /\ pc' = [pc EXCEPT ![t] = "new_alloc"]
    /\ lock' = lock
    /\ lostRace' = (lostRace \/ instance # 0)
    /\ UNCHANGED <<instance, heap, fs, returned, op, arg, self, path, data,
                   last, pre, counters, newMissing, newFailed, constructed,
                   failedReload, lastLoaded, lastUsed>>
    /\ UNCHANGED <<stores, logs>>

\* if cls._instance is None:   (line 58, under the lock); the with block
\* ends, and releases the lock, when the test is false.
NewRecheck(t) ==
    /\ pc[t] = "new_recheck"
    /\ IF instance = 0
       THEN /\ pc' = [pc EXCEPT ![t] = "new_alloc"]
            /\ lock' = lock
       ELSE /\ pc' = [pc EXCEPT ![t] = "new_return"]
            /\ lock' = NoThread
    /\ lostRace' = (lostRace \/ instance # 0)
    /\ UNCHANGED <<instance, heap, fs, returned, op, arg, self, path, data,
                   last, pre, counters, newMissing, newFailed, constructed,
                   failedReload, lastLoaded, lastUsed>>
    /\ UNCHANGED <<stores, logs>>

\* NewAlloc that takes the object allocated first back into use, emptied,
\* instead of allocating.
NewAlloc_Reuses(t) ==
    /\ pc[t] = "new_alloc"
    /\ heap' = IF heap = << >> THEN Append(heap, EmptyMap)
               ELSE [heap EXCEPT ![1] = EmptyMap]
    /\ instance' = 1
    /\ pc' = [pc EXCEPT ![t] = "new_setpath"]
    /\ UNCHANGED <<lock, fs, returned, op, arg, self, path, data, ghosts>>
    /\ UNCHANGED <<stores, logs>>

\* cls._instance = super().__new__(cls)   (line 59): a new object with no
\* attribute is stored in the slot.
NewAlloc(t) ==
    /\ pc[t] = "new_alloc"
    /\ heap' = Append(heap, EmptyMap)
    /\ instance' = Len(heap) + 1
    /\ pc' = [pc EXCEPT ![t] = "new_setpath"]
    /\ UNCHANGED <<lock, fs, returned, op, arg, self, path, data, ghosts>>
    /\ UNCHANGED <<stores, logs>>

\* cls._instance._toml_path = path   (line 60), and cls._instance is read
\* for the call of line 61.
NewSetPath(t) ==
    /\ pc[t] = "new_setpath"
    /\ heap' = [heap EXCEPT ![instance] = SetAttr(@, "_toml_path", path[t])]
    /\ self' = [self EXCEPT ![t] = instance]
    /\ lastUsed' = path[t]
    /\ pc' = [pc EXCEPT ![t] = "load"]
    /\ UNCHANGED <<instance, lock, fs, returned, op, arg, path, data,
                   last, pre, counters, flags, lastLoaded>>
    /\ UNCHANGED <<stores, logs>>

\* return cls._instance   (line 62)
NewReturn(t) ==
    /\ pc[t] = "new_return"
    /\ returned' = returned \cup {instance}
    /\ Finish(t, "inst", instance)
    /\ UNCHANGED <<instance, lock, heap, fs, pre, counters, flags,
                   lastLoaded, lastUsed>>
    /\ UNCHANGED <<stores, logs>>

\* Load that resets the three sections before it tests the path.
Load_ClearsFirst(t) ==
    /\ pc[t] = "load"
    /\ heap' = [heap EXCEPT ![self[t]] =
                   SetAttr(SetAttr(SetAttr(@, "main", EmptyMap),
                                   "notification", EmptyMap), "log", EmptyMap)]
    /\ IF Exists(path[t])
       THEN /\ data' = [data EXCEPT ![t] = fs[path[t]]]
            /\ newLoads' = IF op[t] = "new" THEN newLoads + 1 ELSE newLoads
            /\ pc' = [pc EXCEPT ![t] = "load_main"]
            /\ UNCHANGED <<lock, op, arg, self, path, last, newFailed,
                           failedReload>>
       ELSE /\ Finish(t, "FileNotFoundError",
                      IF op[t] = "reload" THEN self[t] ELSE 0)
            /\ lock' = IF op[t] = "new" THEN NoThread ELSE lock
            /\ newFailed' = (newFailed \/ op[t] = "new")
            /\ failedReload' = IF op[t] = "reload" THEN self[t] ELSE failedReload
            /\ UNCHANGED newLoads
    /\ UNCHANGED <<instance, fs, returned, pre, calls, writes,
                   newMissing, lostRace, constructed, lastLoaded, lastUsed>>
    /\ UNCHANGED <<stores, logs>>

\* Load that empties the singleton slot whenever the file is missing.
Load_DropsInstance(t) ==
    /\ pc[t] = "load"
    /\ IF Exists(path[t])
       THEN /\ data' = [data EXCEPT ![t] = fs[path[t]]]
            /\ newLoads' = IF op[t] = "new" THEN newLoads + 1 ELSE newLoads
            /\ pc' = [pc EXCEPT ![t] = "load_main"]
            /\ UNCHANGED <<instance, lock, op, arg, self, path, last, newFailed,
                           failedReload>>
       ELSE /\ Finish(t, "FileNotFoundError",
                      IF op[t] = "reload" THEN self[t] ELSE 0)
            /\ instance' = 0
            /\ lock' = IF op[t] = "new" THEN NoThread ELSE lock
            /\ newFailed' = (newFailed \/ op[t] = "new")
            /\ failedReload' = IF op[t] = "reload" THEN self[t] ELSE failedReload
            /\ UNCHANGED newLoads
    /\ UNCHANGED <<heap, fs, returned, pre, calls, writes,
                   newMissing, lostRace, constructed, lastLoaded, lastUsed>>
    /\ UNCHANGED <<stores, logs>>

\* Load whose exception leaves the lock held: acquire() with no with block
\* and no finally.
Load_KeepsLockOnError(t) ==
    /\ pc[t] = "load"
    /\ IF Exists(path[t])
       THEN /\ data' = [data EXCEPT ![t] = fs[path[t]]]
            /\ newLoads' = IF op[t] = "new" THEN newLoads + 1 ELSE newLoads
            /\ pc' = [pc EXCEPT ![t] = "load_main"]
            /\ UNCHANGED <<lock, op, arg, self, path, last, newFailed,
                           failedReload>>
       ELSE /\ Finish(t, "FileNotFoundError",
                      IF op[t] = "reload" THEN self[t] ELSE 0)
            /\ lock' = lock
            /\ newFailed' = (newFailed \/ op[t] = "new")
            /\ failedReload' = IF op[t] = "reload" THEN self[t] ELSE failedReload
            /\ UNCHANGED newLoads
    /\ UNCHANGED <<instance, heap, fs, returned, pre, calls, writes,
                   newMissing, lostRace, constructed, lastLoaded, lastUsed>>
    /\ UNCHANGED <<stores, logs>>

\* Load that, when a reload finds no file, puts back the path of the load
\* that completed last before it raises.
Load_RestoresPath(t) ==
    /\ pc[t] = "load"
    /\ IF Exists(path[t])
       THEN /\ data' = [data EXCEPT ![t] = fs[path[t]]]
            /\ newLoads' = IF op[t] = "new" THEN newLoads + 1 ELSE newLoads
            /\ pc' = [pc EXCEPT ![t] = "load_main"]
            /\ UNCHANGED <<heap, lock, op, arg, self, path, last, newFailed,
                           failedReload>>
       ELSE /\ Finish(t, "FileNotFoundError",
                      IF op[t] = "reload" THEN self[t] ELSE 0)
            /\ heap' = IF op[t] = "reload"
                       THEN [heap EXCEPT ![self[t]] =
                                SetAttr(@, "_toml_path", lastLoaded)]
                       ELSE heap
            /\ lock' = IF op[t] = "new" THEN NoThread ELSE lock
            /\ newFailed' = (newFailed \/ op[t] = "new")
            /\ failedReload' = IF op[t] = "reload" THEN self[t] ELSE failedReload
            /\ UNCHANGED newLoads
    /\ UNCHANGED <<instance, fs, returned, pre, calls, writes,
                   newMissing, lostRace, constructed, lastLoaded, lastUsed>>
    /\ UNCHANGED <<stores, logs>>

\* -------------------------------------------------------------- _load
\* Lines 65-67: the existence test, the raise, toml.load.  The exception
\* leaves __new__ through the with block, which releases the lock.
Load(t) ==
    /\ pc[t] = "load"
    /\ IF Exists(path[t])
       THEN /\ data' = [data EXCEPT ![t] = fs[path[t]]]
            /\ newLoads' = IF op[t] = "new" THEN newLoads + 1 ELSE newLoads
            /\ pc' = [pc EXCEPT ![t] = "load_main"]
            /\ UNCHANGED <<lock, op, arg, self, path, last, newFailed,
                           failedReload>>
       ELSE /\ Finish(t, "FileNotFoundError",
                      IF op[t] = "reload" THEN self[t] ELSE 0)
            /\ lock' = IF op[t] = "new" THEN NoThread ELSE lock
            /\ newFailed' = (newFailed \/ op[t] = "new")
            /\ failedReload' = IF op[t] = "reload" THEN self[t] ELSE failedReload
            /\ UNCHANGED newLoads
    /\ UNCHANGED <<instance, heap, fs, returned, pre, calls, writes,
                   newMissing, lostRace, constructed, lastLoaded, lastUsed>>
    /\ UNCHANGED <<stores, logs>>

\* self.main = data.get("main", {})   (line 68)
LoadMain(t) ==
    /\ pc[t] = "load_main"
    /\ heap' = [heap EXCEPT ![self[t]] =
                   SetAttr(@, "main", Get(data[t], "main", EmptyMap))]
    /\ pc' = [pc EXCEPT ![t] = "load_notification"]
    /\ UNCHANGED <<instance, lock, fs, returned, op, arg, self, path, data,
                   ghosts>>
    /\ UNCHANGED <<stores, logs>>

\* LoadNotification that assigns only when the document has the table.
LoadNotification_KeepsIfAbsent(t) ==
    /\ pc[t] = "load_notification"
    /\ heap' = IF "notification" \in DOMAIN data[t]
               THEN [heap EXCEPT ![self[t]] =
                        SetAttr(@, "notification", data[t]["notification"])]
               ELSE heap
    /\ pc' = [pc EXCEPT ![t] = "load_log"]
    /\ UNCHANGED <<instance, lock, fs, returned, op, arg, self, path, data,
                   ghosts>>
    /\ UNCHANGED <<stores, logs>>

\* self.notification = data.get("notification", {})   (line 69)
LoadNotification(t) ==
    /\ pc[t] = "load_notification"
    /\ heap' = [heap EXCEPT ![self[t]] =
                   SetAttr(@, "notification",
                           Get(data[t], "notification", EmptyMap))]
    /\ pc' = [pc EXCEPT ![t] = "load_log"]
    /\ UNCHANGED <<instance, lock, fs, returned, op, arg, self, path, data,
                   ghosts>>
    /\ UNCHANGED <<stores, logs>>

\* LoadLog with the key of line 68 copied: self.log = data.get("main", {}).
LoadLog_CopiesMain(t) ==
    /\ pc[t] = "load_log"
    /\ heap' = [heap EXCEPT ![self[t]] =
                   SetAttr(@, "log", Get(data[t], "main", EmptyMap))]
    /\ IF op[t] = "new"
       THEN /\ lock' = NoThread
            /\ pc' = [pc EXCEPT ![t] = "new_return"]
            /\ constructed' = self[t]
            /\ UNCHANGED <<op, arg, self, path, data, last>>
       ELSE /\ lock' = lock
            /\ Finish(t, "ok", self[t])
            /\ UNCHANGED constructed
    /\ lastLoaded' = path[t]
    /\ UNCHANGED <<instance, fs, returned, pre, counters, newMissing,
                   newFailed, lostRace, failedReload, lastUsed>>
    /\ UNCHANGED <<stores, logs>>

\* self.log = data.get("log", {})   (line 70); _load returns: __new__
\* leaves the with block (the lock is released) and goes to its return,
\* reload returns None.
LoadLog(t) ==
    /\ pc[t] = "load_log"
    /\ heap' = [heap EXCEPT ![self[t]] =
                   SetAttr(@, "log", Get(data[t], "log", EmptyMap))]
    /\ IF op[t] = "new"
       THEN /\ lock' = NoThread
            /\ pc' = [pc EXCEPT ![t] = "new_return"]
            /\ constructed' = self[t]
            /\ UNCHANGED <<op, arg, self, path, data, last>>
       ELSE /\ lock' = lock
            /\ Finish(t, "ok", self[t])
            /\ UNCHANGED constructed
    /\ lastLoaded' = path[t]
    /\ UNCHANGED <<instance, fs, returned, pre, counters, newMissing,
                   newFailed, lostRace, failedReload, lastUsed>>
    /\ UNCHANGED <<stores, logs>>

\* The statements of __new__ inside the with block of line 57 (lines 58-61,
\* _load included).
LockedPcs ==
    {"new_recheck", "new_alloc", "new_setpath",
     "load", "load_main", "load_notification", "load_log"}

\* ------------------------------------------------------------- reload
\* ReloadCall that builds a fresh object from the receiver and installs it in
\* the slot, instead of working on the receiver itself.
ReloadCall_FreshObject(t, o, toml_path) ==
    /\ pc[t] = "idle"
    /\ calls < MaxCalls
    /\ o \in returned
    /\ calls' = calls + 1
    /\ pre' = IF t = Main THEN heap[o] ELSE pre
    /\ IF toml_path = None /\ ~HasAttr(o, "_toml_path")
       THEN /\ last' = IF t = Main
                       THEN Outcome("reload", toml_path, "AttributeError", 0)
                       ELSE last
            /\ UNCHANGED <<instance, heap, locals, lastUsed>>
       ELSE /\ heap' = Append(heap, heap[o])
            /\ instance' = Len(heap) + 1
            /\ op' = [op EXCEPT ![t] = "reload"]
            /\ arg' = [arg EXCEPT ![t] = toml_path]
            /\ self' = [self EXCEPT ![t] = Len(heap) + 1]
            /\ path' = [path EXCEPT ![t] =
                           ResolvePath(toml_path, Get(heap[o], "_toml_path", None))]
            /\ pc' = [pc EXCEPT ![t] = "reload_setpath"]
            /\ lastUsed' = IF toml_path # None THEN toml_path ELSE lastUsed
            /\ UNCHANGED <<data, last>>
    /\ UNCHANGED <<lock, fs, returned, writes, newLoads, flags, lastLoaded>>
    /\ UNCHANGED <<stores, logs>>

\* ReloadCall that enters the class lock first: reload wrapped in
\* with cls._lock.
ReloadCall_TakesLock(t, o, toml_path) ==
    /\ pc[t] = "idle"
    /\ calls < MaxCalls
    /\ o \in returned
    /\ lock = NoThread
    /\ calls' = calls + 1
    /\ pre' = IF t = Main THEN heap[o] ELSE pre
    /\ IF toml_path = None /\ ~HasAttr(o, "_toml_path")
       THEN /\ last' = IF t = Main
                       THEN Outcome("reload", toml_path, "AttributeError", 0)
                       ELSE last
            /\ UNCHANGED <<lock, locals, lastUsed>>
       ELSE /\ lock' = t
            /\ op' = [op EXCEPT ![t] = "reload"]
            /\ arg' = [arg EXCEPT ![t] = toml_path]
            /\ self' = [self EXCEPT ![t] = o]
            /\ path' = [path EXCEPT ![t] =
                           ResolvePath(toml_path, Get(heap[o], "_toml_path", None))]
            /\ pc' = [pc EXCEPT ![t] = "reload_setpath"]
            /\ lastUsed' = IF toml_path # None THEN toml_path ELSE lastUsed
            /\ UNCHANGED <<data, last>>
    /\ UNCHANGED <<instance, heap, fs, returned, writes, newLoads, flags,
                   lastLoaded>>
    /\ UNCHANGED <<stores, logs>>

\* o.reload(toml_path), o a reference some getInstance call returned.
\* Line 86: path = Path(toml_path) if toml_path else self._toml_path; the
\* attribute read raises AttributeError on an object that has none yet.
ReloadCall(t, o, toml_path) ==
    /\ pc[t] = "idle"
    /\ calls < MaxCalls
    /\ o \in returned
    /\ calls' = calls + 1
    /\ pre' = IF t = Main THEN heap[o] ELSE pre
    /\ IF toml_path = None /\ ~HasAttr(o, "_toml_path")
       THEN /\ last' = IF t = Main
                       THEN Outcome("reload", toml_path, "AttributeError", 0)
                       ELSE last
            /\ UNCHANGED <<locals, lastUsed>>
       ELSE /\ op' = [op EXCEPT ![t] = "reload"]
            /\ arg' = [arg EXCEPT ![t] = toml_path]
            /\ self' = [self EXCEPT ![t] = o]
            /\ path' = [path EXCEPT ![t] =
                           ResolvePath(toml_path, Get(heap[o], "_toml_path", None))]
            /\ pc' = [pc EXCEPT ![t] = "reload_setpath"]
            /\ lastUsed' = IF toml_path # None THEN toml_path ELSE lastUsed
            /\ UNCHANGED <<data, last>>
    /\ UNCHANGED <<shared, writes, newLoads, flags, lastLoaded>>
    /\ UNCHANGED <<stores, logs>>

\* ReloadSetPath with the assignment of line 87 left out.
ReloadSetPath_Skipped(t) ==
    /\ pc[t] = "reload_setpath"
    /\ pc' = [pc EXCEPT ![t] = "load"]
    /\ UNCHANGED <<instance, lock, heap, fs, returned, op, arg, self, path,
                   data, ghosts>>
    /\ UNCHANGED <<stores, logs>>

\* self._toml_path = path   (line 87)
ReloadSetPath(t) ==
    /\ pc[t] = "reload_setpath"
    /\ heap' = [heap EXCEPT ![self[t]] = SetAttr(@, "_toml_path", path[t])]
    /\ pc' = [pc EXCEPT ![t] = "load"]
    /\ UNCHANGED <<instance, lock, fs, returned, op, arg, self, path, data,
                   ghosts>>
    /\ UNCHANGED <<stores, logs>>

\* ------------------------------------------------------- environment
\* path.write_text(toml.dumps(content)): a file that exists gets a new
\* content.
WriteFile(p, d) ==
    /\ writes < MaxWrites
    /\ p \in DOMAIN fs
    /\ d # fs[p]
    /\ fs' = [fs EXCEPT ![p] = d]
    /\ writes' = writes + 1
    /\ UNCHANGED <<instance, lock, heap, returned, locals, last, pre, calls,
                   newLoads, flags, lastLoaded, lastUsed>>
    /\ UNCHANGED <<stores, logs>>

\* ------------------------------------------------------ specifications
Step(t) ==
    \/ \E toml_path \in ArgPaths \cup {None} : NewCall(t, toml_path)
    \/ NewLock(t)
    \/ NewRecheck(t)
    \/ NewAlloc(t)
    \/ NewSetPath(t)
    \/ NewReturn(t)
    \/ Load(t)
    \/ LoadMain(t)
    \/ LoadNotification(t)
    \/ LoadLog(t)
    \/ \E o \in returned, toml_path \in ArgPaths \cup {None} :
           ReloadCall(t, o, toml_path)
    \/ ReloadSetPath(t)

\* The threads the program spawns call the class with no synchronisation
\* of their own; the files stay as they are meanwhile.
Next == \E t \in Workers : Step(t)

Spec == Init /\ [][Next]_vars

AllIdle == \A t \in Threads : pc[t] = "idle"

\* One caller, the main thread; files are rewritten between its calls.
NextSeq ==
    \/ Step(Main)
    \/ \E p \in ExistingPaths, d \in Docs : AllIdle /\ WriteFile(p, d)

SpecSeq == Init /\ [][NextSeq]_vars

\* ----------------------------------------------------------- the reset
\* SentinelResponseConfig._instance = None, the fixture of the tests; the
\* objects handed out before stay with their holders.
Reset ==
    /\ instance # 0
    /\ instance' = 0
    /\ UNCHANGED <<lock, heap, fs, returned, locals, ghosts>>
    /\ UNCHANGED <<stores, logs>>

\* One caller, the main thread; the slot is cleared between its calls.
NextReset ==
    \/ Step(Main)
    \/ AllIdle /\ Reset

SpecReset == Init /\ [][NextReset]_vars

\* ------------------------------------------------ reloads side by side
\* The state after SentinelResponseConfig("A.toml") has returned to the main
\* thread: the object is in the slot, loaded from A.toml, and handed out.
InitLoaded ==
    /\ instance = 1
    /\ lock = NoThread
    /\ heap = <<[_toml_path |-> "A.toml",
                 main |-> BASE_CONFIG["main"],
                 notification |-> BASE_CONFIG["notification"],
                 log |-> BASE_CONFIG["log"]]>>
    /\ fs = InitialFs
    /\ returned = {1}
    /\ pc = [t \in Threads |-> "idle"]
    /\ op = [t \in Threads |-> "none"]
    /\ arg = [t \in Threads |-> None]
    /\ self = [t \in Threads |-> 0]
    /\ path = [t \in Threads |-> None]
    /\ data = [t \in Threads |-> EmptyMap]
    /\ last = Outcome("new", "A.toml", "inst", 1)
    /\ pre = EmptyMap
    /\ calls = 1
    /\ writes = 0
    /\ newLoads = 1
    /\ newMissing = FALSE
    /\ newFailed = FALSE
    /\ lostRace = FALSE
    /\ constructed = 1
    /\ failedReload = 0
    /\ lastLoaded = "A.toml"
    /\ lastUsed = "A.toml"
    /\ alerts = << >>
    /\ cases = << >>
    /\ users = << >>
    /\ tenants = << >>
    /\ events = << >>
    /\ call = [op |-> "none", params |-> << >>, kind |-> "none", ret |-> << >>]
    /\ LogInit

\* The threads the program spawns reload the constructed instance, with no
\* synchronisation of their own.
NextReload ==
    \E t \in Workers :
        \/ \E o \in returned, toml_path \in ArgPaths \cup {None} :
               ReloadCall(t, o, toml_path)
        \/ ReloadSetPath(t)
        \/ Load(t)
        \/ LoadMain(t)
        \/ LoadNotification(t)
        \/ LoadLog(t)

SpecReload == InitLoaded /\ [][NextReload]_vars

\* ============================================================ managers
\* AlertManager, CaseManager, UserManager and TenantManager each keep one
\* dict, id -> object; CorrelationEngine works on an AlertManager and a
\* CaseManager; TimelineManager keeps a list of (timestamp, description).

\* ------------------------------------------------------------- a dict
\* A Python dict is the sequence of its items in insertion order.
Item(k, v) == [key |-> k, val |-> v]

\* the keys of d
Keys(d) == {d[i].key : i \in DOMAIN d}

\* k in d
Has(d, k) == k \in Keys(d)

\* d[k]
Lookup(d, k) == d[CHOOSE i \in DOMAIN d : d[i].key = k].val

\* d[k] = v: a key that is present keeps its position, a new key goes last
Put(d, k, v) ==
    IF Has(d, k)
    THEN [i \in DOMAIN d |-> IF d[i].key = k THEN Item(k, v) ELSE d[i]]
    ELSE Append(d, Item(k, v))

\* del d[k]
Del(d, k) == SelectSeq(d, LAMBDA e : e.key # k)

\* list(d.values())
Values(d) == [i \in DOMAIN d |-> d[i].val]

\* The elements of a list.
Range(s) == {s[i] : i \in DOMAIN s}

\* ------------------------------------------------------------ objects
AlertIds == {1, 2}
Severities == {"alta", "ALTA", "baixa"}

\* Alert(alert_id, severity, ...): the attributes the managers and the
\* engine read.
Alert(i, s) == [alert_id |-> i, severity |-> s]
AlertInputs == {Alert(i, s) : i \in AlertIds, s \in Severities}

\* Case(case_id, title, alerts)
Case(i, as) == [case_id |-> i, alerts |-> as]

\* User(user_id, username, email) and Tenant(tenant_id, name)
UserIds == {1, 2}
Names == {"ana", "bob"}
User(i, n) == [user_id |-> i, username |-> n]
UserInputs == {User(i, n) : i \in UserIds, n \in Names}
TenantIds == {1, 2}
Tenant(i, n) == [tenant_id |-> i, name |-> n]
TenantInputs == {Tenant(i, n) : i \in TenantIds, n \in Names}

\* A call that has ended: its name, its arguments, "ok" when it returned or
\* the name of the exception it raised, and the value it returned.
Call(o, a, k, r) == [op |-> o, params |-> a, kind |-> k, ret |-> r]

\* ------------------------------------------------------- AlertManager
\* create_alert that stores the alert whether or not the id is taken
\* (the test of line 74 left out).
create_alert_Overwrites(alert) ==
    /\ alerts' = Put(alerts, alert.alert_id, alert)
    /\ call' = Call("create_alert", <<alert>>, "ok", <<>>)
    /\ UNCHANGED <<cases, users, tenants, events, config, logs>>

\* create_alert (lines 74-78): an id that is stored gets a warning and the
\* method returns; otherwise self.alerts[alert.alert_id] = alert.
create_alert(alert) ==
    /\ alerts' = IF Has(alerts, alert.alert_id)
                 THEN alerts
                 ELSE Put(alerts, alert.alert_id, alert)
    /\ call' = Call("create_alert", <<alert>>, "ok", <<>>)
    /\ UNCHANGED <<cases, users, tenants, events, config, logs>>

\* read_alert: return self.alerts[alert_id]; the KeyError becomes
\* NotFoundError.
read_alert(alert_id) ==
    /\ call' = IF Has(alerts, alert_id)
               THEN Call("read_alert", <<alert_id>>, "ok",
                         <<Lookup(alerts, alert_id)>>)
               ELSE Call("read_alert", <<alert_id>>, "NotFoundError", <<>>)
    /\ UNCHANGED <<alerts, cases, users, tenants, events, config, logs>>

\* update_alert (lines 174-179)
update_alert(alert) ==
    /\ IF Has(alerts, alert.alert_id)
       THEN /\ alerts' = Put(alerts, alert.alert_id, alert)
            /\ call' = Call("update_alert", <<alert>>, "ok", <<>>)
       ELSE /\ alerts' = alerts
            /\ call' = Call("update_alert", <<alert>>, "NotFoundError", <<>>)
    /\ UNCHANGED <<cases, users, tenants, events, config, logs>>

\* delete_alert (lines 210-215)
delete_alert(alert_id) ==
    /\ IF Has(alerts, alert_id)
       THEN /\ alerts' = Del(alerts, alert_id)
            /\ call' = Call("delete_alert", <<alert_id>>, "ok", <<>>)
       ELSE /\ alerts' = alerts
            /\ call' = Call("delete_alert", <<alert_id>>, "NotFoundError", <<>>)
    /\ UNCHANGED <<cases, users, tenants, events, config, logs>>

\* -------------------------------------------------------- CaseManager
\* create_case (line 83): self.cases[case.case_id] = case, whatever
\* the dict holds under that id
create_case(case) ==
    /\ cases' = Put(cases, case.case_id, case)
    /\ call' = Call("create_case", <<case>>, "ok", <<>>)
    /\ UNCHANGED <<alerts, users, tenants, events, config, logs>>

\* read_case (lines 116-118)
read_case(case_id) ==
    /\ call' = IF Has(cases, case_id)
               THEN Call("read_case", <<case_id>>, "ok",
                         <<Lookup(cases, case_id)>>)
               ELSE Call("read_case", <<case_id>>, "NotFoundError", <<>>)
    /\ UNCHANGED <<alerts, cases, users, tenants, events, config, logs>>

\* update_case (lines 174-178)
update_case(case) ==
    /\ IF Has(cases, case.case_id)
       THEN /\ cases' = Put(cases, case.case_id, case)
            /\ call' = Call("update_case", <<case>>, "ok", <<>>)
       ELSE /\ cases' = cases
            /\ call' = Call("update_case", <<case>>, "NotFoundError", <<>>)
    /\ UNCHANGED <<alerts, users, tenants, events, config, logs>>

\* delete_case (lines 210-214)
delete_case(case_id) ==
    /\ IF Has(cases, case_id)
       THEN /\ cases' = Del(cases, case_id)
            /\ call' = Call("delete_case", <<case_id>>, "ok", <<>>)
       ELSE /\ cases' = cases
            /\ call' = Call("delete_case", <<case_id>>, "NotFoundError", <<>>)
    /\ UNCHANGED <<alerts, users, tenants, events, config, logs>>

\* -------------------------------------------------------- UserManager
\* create_user (line 81): self.users[user.user_id] = user
create_user(user) ==
    /\ users' = Put(users, user.user_id, user)
    /\ call' = Call("create_user", <<user>>, "ok", <<>>)
    /\ UNCHANGED <<alerts, cases, tenants, events, config, logs>>

\* read_user (lines 115-117)
read_user(user_id) ==
    /\ call' = IF Has(users, user_id)
               THEN Call("read_user", <<user_id>>, "ok",
                         <<Lookup(users, user_id)>>)
               ELSE Call("read_user", <<user_id>>, "NotFoundError", <<>>)
    /\ UNCHANGED <<alerts, cases, users, tenants, events, config, logs>>

\* update_user (lines 165-171)
update_user(user) ==
    /\ IF Has(users, user.user_id)
       THEN /\ users' = Put(users, user.user_id, user)
            /\ call' = Call("update_user", <<user>>, "ok", <<>>)
       ELSE /\ users' = users
            /\ call' = Call("update_user", <<user>>, "NotFoundError", <<>>)
    /\ UNCHANGED <<alerts, cases, tenants, events, config, logs>>

\* delete_user (lines 202-206)
delete_user(user_id) ==
    /\ IF Has(users, user_id)
       THEN /\ users' = Del(users, user_id)
            /\ call' = Call("delete_user", <<user_id>>, "ok", <<>>)
       ELSE /\ users' = users
            /\ call' = Call("delete_user", <<user_id>>, "NotFoundError", <<>>)
    /\ UNCHANGED <<alerts, cases, tenants, events, config, logs>>

\* ------------------------------------------------------ TenantManager
\* create_tenant (line 82): self.tenants[tenant.tenant_id] = tenant
create_tenant(tenant) ==
    /\ tenants' = Put(tenants, tenant.tenant_id, tenant)
    /\ call' = Call("create_tenant", <<tenant>>, "ok", <<>>)
    /\ UNCHANGED <<alerts, cases, users, events, config, logs>>

\* read_tenant (lines 115-117)
read_tenant(tenant_id) ==
    /\ call' = IF Has(tenants, tenant_id)
               THEN Call("read_tenant", <<tenant_id>>, "ok",
                         <<Lookup(tenants, tenant_id)>>)
               ELSE Call("read_tenant", <<tenant_id>>, "NotFoundError", <<>>)
    /\ UNCHANGED <<alerts, cases, users, tenants, events, config, logs>>

\* update_tenant that stores the tenant when the id is not there, instead
\* of raising.
update_tenant_Upserts(tenant) ==
    /\ tenants' = Put(tenants, tenant.tenant_id, tenant)
    /\ call' = Call("update_tenant", <<tenant>>, "ok", <<>>)
    /\ UNCHANGED <<alerts, cases, users, events, config, logs>>

\* update_tenant (lines 169-175)
update_tenant(tenant) ==
    /\ IF Has(tenants, tenant.tenant_id)
       THEN /\ tenants' = Put(tenants, tenant.tenant_id, tenant)
            /\ call' = Call("update_tenant", <<tenant>>, "ok", <<>>)
       ELSE /\ tenants' = tenants
            /\ call' = Call("update_tenant", <<tenant>>, "NotFoundError", <<>>)
    /\ UNCHANGED <<alerts, cases, users, events, config, logs>>

\* delete_tenant (lines 205-209)
delete_tenant(tenant_id) ==
    /\ IF Has(tenants, tenant_id)
       THEN /\ tenants' = Del(tenants, tenant_id)
            /\ call' = Call("delete_tenant", <<tenant_id>>, "ok", <<>>)
       ELSE /\ tenants' = tenants
            /\ call' = Call("delete_tenant", <<tenant_id>>, "NotFoundError", <<>>)
    /\ UNCHANGED <<alerts, cases, users, events, config, logs>>

\* -------------------------------------------------- CorrelationEngine
\* The engine of the docstrings, CorrelationEngine(AlertManager(),
\* CaseManager()): no timeline manager and no notifications manager attached.

\* Lower that leaves the string as it is: the severity compared with no
\* call of lower().
Lower_Identity(s) == s

\* str.lower() on the severities in use.
Lower(s) == IF s = "ALTA" THEN "alta" ELSE s

\* Case.add_alert (lines 83-84): if alert not in self.alerts: append
add_alert(case, alert) ==
    IF alert \notin Range(case.alerts)
    THEN [case EXCEPT !.alerts = Append(@, alert)]
    ELSE case

\* lines 99-101: the ids of the alerts held by the cases of a list
CorrelatedAlertIds(existing_cases) ==
    UNION {{existing_cases[i].alerts[j].alert_id :
               j \in DOMAIN existing_cases[i].alerts} :
           i \in DOMAIN existing_cases}

\* The loop of lines 103-124 over the alerts still to visit: cs is
\* case_manager.cases and new_cases the list built so far.
RECURSIVE CorrelateLoop(_, _, _, _)
CorrelateLoop(todo, correlated_alert_ids, cs, new_cases) ==
    IF todo = << >>
    THEN [cases |-> cs, new_cases |-> new_cases]
    ELSE LET alert == Head(todo)
             new_case == add_alert(Case(alert.alert_id + 1000, << >>), alert)
         IN  IF /\ alert.alert_id \notin correlated_alert_ids
                /\ Lower(alert.severity) = "alta"
             THEN CorrelateLoop(Tail(todo), correlated_alert_ids,
                                Put(cs, new_case.case_id, new_case),
                                Append(new_cases, new_case))
             ELSE CorrelateLoop(Tail(todo), correlated_alert_ids, cs,
                                new_cases)

\* correlate_alerts_to_cases (lines 94-124)
correlate_alerts_to_cases ==
    LET all_alerts == Values(alerts)
        existing_cases == Values(cases)
        out == CorrelateLoop(all_alerts, CorrelatedAlertIds(existing_cases),
                             cases, << >>)
    IN  /\ cases' = out.cases
        /\ call' = Call("correlate_alerts_to_cases", << >>, "ok",
                        out.new_cases)
        /\ UNCHANGED <<alerts, users, tenants, events, config, logs>>

\* The rules a caller passes as rule (line 127), a Callable[[Alert], bool]:
\* one that holds of every alert and one that holds of the low severity.
Rules == {"every", "baixa"}

\* rule(alert) (line 171)
ApplyRule(rule, alert) ==
    IF rule = "every" THEN TRUE ELSE alert.severity = "baixa"

\* The loop of lines 170-191 over the alerts still to visit.
RECURSIVE CorrelateRuleLoop(_, _, _, _, _)
CorrelateRuleLoop(rule, todo, correlated_alert_ids, cs, new_cases) ==
    IF todo = << >>
    THEN [cases |-> cs, new_cases |-> new_cases]
    ELSE LET alert == Head(todo)
             new_case == add_alert(Case(alert.alert_id + 1000, << >>), alert)
         IN  IF /\ alert.alert_id \notin correlated_alert_ids
                /\ ApplyRule(rule, alert)
             THEN CorrelateRuleLoop(rule, Tail(todo), correlated_alert_ids,
                                    Put(cs, new_case.case_id, new_case),
                                    Append(new_cases, new_case))
             ELSE CorrelateRuleLoop(rule, Tail(todo), correlated_alert_ids,
                                    cs, new_cases)

\* correlate_alerts_with_rule (lines 163-192)
correlate_alerts_with_rule(rule) ==
    LET all_alerts == Values(alerts)
        existing_cases == Values(cases)
        out == CorrelateRuleLoop(rule, all_alerts,
                                 CorrelatedAlertIds(existing_cases),
                                 cases, << >>)
    IN  /\ cases' = out.cases
        /\ call' = Call("correlate_alerts_with_rule", <<rule>>, "ok",
                        out.new_cases)
        /\ UNCHANGED <<alerts, users, tenants, events, config, logs>>

\* The index of the first alert of a list that has the id, 0 when none has.
FirstWithId(as, alert_id) ==
    IF \E j \in DOMAIN as : as[j].alert_id = alert_id
    THEN CHOOSE j \in DOMAIN as :
            /\ as[j].alert_id = alert_id
            /\ \A k \in 1 .. (j - 1) : as[k].alert_id # alert_id
    ELSE 0

\* list.remove(x): the first element equal to x goes.
ListRemove(s, x) ==
    LET k == CHOOSE i \in DOMAIN s : s[i] = x /\ \A h \in 1 .. (i - 1) : s[h] # x
    IN  SubSeq(s, 1, k - 1) \o SubSeq(s, k + 1, Len(s))

\* remove_correlation_for_alert with no return after the first hit: every
\* case that holds an alert with the id loses its first such alert, and the
\* cases left empty are deleted.
remove_correlation_for_alert_AllCases(alert_id) ==
    LET Strip(e) ==
            IF FirstWithId(e.val.alerts, alert_id) = 0 THEN e
            ELSE [e EXCEPT !.val.alerts =
                     ListRemove(@, @[FirstWithId(@, alert_id)])]
        stripped == [i \in DOMAIN cases |-> Strip(cases[i])]
    IN  /\ cases' = SelectSeq(stripped,
                      LAMBDA e : e.val.alerts # << >> \/ e \in Range(cases))
        /\ call' = Call("remove_correlation_for_alert", <<alert_id>>, "ok",
                        << >>)
        /\ UNCHANGED <<alerts, users, tenants, events, config, logs>>

\* remove_correlation_for_alert (lines 222-231): the first case, in the
\* order of the dict, that holds an alert with the id loses it (the list of
\* the stored Case object is changed in place); a case left with no alert
\* is deleted; then the method returns.
remove_correlation_for_alert(alert_id) ==
    LET hit == {i \in DOMAIN cases : FirstWithId(cases[i].val.alerts, alert_id) # 0}
    IN  /\ IF hit = {}
           THEN cases' = cases
           ELSE LET i == CHOOSE c \in hit : \A d \in hit : c <= d
                    case == cases[i].val
                    alert == case.alerts[FirstWithId(case.alerts, alert_id)]
                    left == ListRemove(case.alerts, alert)
                    changed == [cases EXCEPT ![i].val.alerts = left]
                IN  cases' = IF left = << >>
                             THEN Del(changed, case.case_id)
                             ELSE changed
        /\ call' = Call("remove_correlation_for_alert", <<alert_id>>, "ok",
                        << >>)
        /\ UNCHANGED <<alerts, users, tenants, events, config, logs>>

\* ----------------------------------------------------- TimelineManager
\* A timestamp is a number; 1 is before 2.
Timestamps == {1, 2}
Descriptions == {"started", "logged in"}

\* s with e put after every element whose timestamp is not later.
InsertByTimestamp(s, e) ==
    LET n == Cardinality({i \in DOMAIN s : s[i][1] <= e[1]})
    IN  SubSeq(s, 1, n) \o <<e>> \o SubSeq(s, n + 1, Len(s))

\* sorted(events, key=lambda event: event[0]): a stable sort
RECURSIVE SortedByTimestamp(_)
SortedByTimestamp(s) ==
    IF s = << >> THEN << >>
    ELSE InsertByTimestamp(SortedByTimestamp(SubSeq(s, 1, Len(s) - 1)),
                           s[Len(s)])

\* create_event (line 66): self.events.append((timestamp, description))
create_event(timestamp, description) ==
    /\ Len(events) < MaxEvents
    /\ events' = Append(events, <<timestamp, description>>)
    /\ call' = Call("create_event", <<timestamp, description>>, "ok", << >>)
    /\ UNCHANGED <<alerts, cases, users, tenants, config, logs>>

\* read_events (line 89)
read_events ==
    /\ call' = Call("read_events", << >>, "ok", SortedByTimestamp(events))
    /\ UNCHANGED <<alerts, cases, users, tenants, events, config, logs>>

\* update_event (lines 123-127); the list index i is position i + 1 here
update_event(index, timestamp, description) ==
    /\ IF 0 <= index /\ index < Len(events)
       THEN /\ events' = [events EXCEPT ![index + 1] = <<timestamp, description>>]
            /\ call' = Call("update_event", <<index, timestamp, description>>,
                            "ok", << >>)
       ELSE /\ events' = events
            /\ call' = Call("update_event", <<index, timestamp, description>>,
                            "IndexError", << >>)
    /\ UNCHANGED <<alerts, cases, users, tenants, config, logs>>

\* delete_event (lines 158-162)
delete_event(index) ==
    /\ IF 0 <= index /\ index < Len(events)
       THEN /\ events' = SubSeq(events, 1, index) \o
                         SubSeq(events, index + 2, Len(events))
            /\ call' = Call("delete_event", <<index>>, "ok", << >>)
       ELSE /\ events' = events
            /\ call' = Call("delete_event", <<index>>, "IndexError", << >>)
    /\ UNCHANGED <<alerts, cases, users, tenants, config, logs>>

\* ------------------------------------------- specifications (managers)
CaseIds == {1, 1001}

\* The lists of at most two alerts taken from a pool.
AlertLists(pool) ==
    {<< >>} \cup {<<a>> : a \in pool} \cup {<<a, b>> : a \in pool, b \in pool}

\* The cases a caller builds from the alerts of a pool.
CaseInputs(pool) == {Case(i, as) : i \in CaseIds, as \in AlertLists(pool)}

\* The number of entries the four managers hold.
Stored == Len(alerts) + Len(cases) + Len(users) + Len(tenants)

\* The four managers, called in any order with any of their inputs; the
\* callers stop creating when the managers hold MaxStored entries.
NextCrud ==
    \/ \E alert \in AlertInputs : Stored < MaxStored /\ create_alert(alert)
    \/ \E alert_id \in AlertIds : read_alert(alert_id)
    \/ \E alert \in AlertInputs : update_alert(alert)
    \/ \E alert_id \in AlertIds : delete_alert(alert_id)
    \/ \E case \in CaseInputs({Alert(1, "alta")}) :
           Stored < MaxStored /\ create_case(case)
    \/ \E case_id \in CaseIds : read_case(case_id)
    \/ \E case \in CaseInputs({Alert(1, "alta")}) : update_case(case)
    \/ \E case_id \in CaseIds : delete_case(case_id)
    \/ \E user \in UserInputs : Stored < MaxStored /\ create_user(user)
    \/ \E user_id \in UserIds : read_user(user_id)
    \/ \E user \in UserInputs : update_user(user)
    \/ \E user_id \in UserIds : delete_user(user_id)
    \/ \E tenant \in TenantInputs : Stored < MaxStored /\ create_tenant(tenant)
    \/ \E tenant_id \in TenantIds : read_tenant(tenant_id)
    \/ \E tenant \in TenantInputs : update_tenant(tenant)
    \/ \E tenant_id \in TenantIds : delete_tenant(tenant_id)

SpecCrud == Init /\ [][NextCrud]_vars

\* The engine at work: alerts come and change, cases are opened by hand
\* from stored alerts, and the two methods of the engine are called.
NextCorr ==
    \/ \E alert \in AlertInputs : Stored < MaxStored /\ create_alert(alert)
    \/ \E alert \in AlertInputs : update_alert(alert)
    \/ \E case \in CaseInputs(Range(Values(alerts))) :
           Stored < MaxStored /\ create_case(case)
    \/ correlate_alerts_to_cases
    \/ \E rule \in Rules : correlate_alerts_with_rule(rule)
    \/ \E alert_id \in AlertIds : remove_correlation_for_alert(alert_id)

SpecCorr == Init /\ [][NextCorr]_vars

\* The timeline: list indexes from one before the first to one past the last.
NextTimeline ==
    \/ \E timestamp \in Timestamps, description \in Descriptions :
           create_event(timestamp, description)
    \/ read_events
    \/ \E index \in -1 .. Len(events), timestamp \in Timestamps,
          description \in Descriptions :
           update_event(index, timestamp, description)
    \/ \E index \in -1 .. Len(events) : delete_event(index)

SpecTimeline == Init /\ [][NextTimeline]_vars

\* ---------------------------------------------- _OpenSearchBulkHandler
\* The handler LogManager builds at lines 128-133, with its batch_size and
\* its flush_interval (100 and 5.0 seconds when the configuration names
\* none), scaled down to the records and the clock of the model.
BatchSize == 2
FlushInterval == 2

\* def emit(self, record)   (lines 27-38): the document is built.
EmitCall(t) ==
    /\ lpc[t] = "idle"
    /\ gpc[t] = "idle"
    /\ records < MaxRecords
    /\ records' = records + 1
    /\ doc' = [doc EXCEPT ![t] = records + 1]
    /\ lpc' = [lpc EXCEPT ![t] = "emit_lock"]
    /\ UNCHANGED <<hlock, buffer, now, last_flush, nested, manager>>
    /\ UNCHANGED <<config, stores>>

\* with self._lock:   (line 39): threading.Lock, taken when it is free
EmitLock(t) ==
    /\ lpc[t] = "emit_lock"
    /\ hlock = NoThread
    /\ hlock' = t
    /\ lpc' = [lpc EXCEPT ![t] = "emit_append"]
    /\ UNCHANGED <<buffer, now, last_flush, nested, doc, records, manager>>
    /\ UNCHANGED <<config, stores>>

\* self._buffer.append(doc)   (line 40)
EmitAppend(t) ==
    /\ lpc[t] = "emit_append"
    /\ buffer' = Append(buffer, doc[t])
    /\ lpc' = [lpc EXCEPT ![t] = "emit_test"]
    /\ UNCHANGED <<hlock, now, last_flush, nested, doc, records, manager>>
    /\ UNCHANGED <<config, stores>>

\* if len(self._buffer) >= self.batch_size
\*    or (time() - self._last_flush) >= self.flush_interval:
\*     self.flush()           (lines 41-45): the call is made inside the
\* with block, the lock still held.
EmitTest(t) ==
    /\ lpc[t] = "emit_test"
    /\ IF Len(buffer) >= BatchSize \/ (now - last_flush) >= FlushInterval
       THEN /\ lpc' = [lpc EXCEPT ![t] = "flush_lock"]
            /\ nested' = [nested EXCEPT ![t] = TRUE]
       ELSE /\ lpc' = [lpc EXCEPT ![t] = "emit_unlock"]
            /\ nested' = nested
    /\ UNCHANGED <<hlock, buffer, now, last_flush, doc, records, manager>>
    /\ UNCHANGED <<config, stores>>

\* the end of the with block of emit: the lock is released, emit returns
EmitUnlock(t) ==
    /\ lpc[t] = "emit_unlock"
    /\ hlock' = NoThread
    /\ lpc' = [lpc EXCEPT ![t] = "idle"]
    /\ doc' = [doc EXCEPT ![t] = 0]
    /\ UNCHANGED <<buffer, now, last_flush, nested, records, manager>>
    /\ UNCHANGED <<config, stores>>

\* def flush(self), called from outside emit (close() at line 62, or any
\* thread that holds the handler)
FlushCall(t) ==
    /\ lpc[t] = "idle"
    /\ gpc[t] = "idle"
    /\ lpc' = [lpc EXCEPT ![t] = "flush_lock"]
    /\ nested' = [nested EXCEPT ![t] = FALSE]
    /\ UNCHANGED <<hlock, buffer, now, last_flush, doc, records, manager>>
    /\ UNCHANGED <<config, stores>>

\* with self._lock:   (line 48): threading.Lock is not reentrant, the
\* thread that holds it waits like any other.
FlushLock(t) ==
    /\ lpc[t] = "flush_lock"
    /\ hlock = NoThread
    /\ hlock' = t
    /\ lpc' = [lpc EXCEPT ![t] = "flush_test"]
    /\ UNCHANGED <<buffer, now, last_flush, nested, doc, records, manager>>
    /\ UNCHANGED <<config, stores>>

\* if not self._buffer: return   (lines 49-50)
FlushTest(t) ==
    /\ lpc[t] = "flush_test"
    /\ lpc' = [lpc EXCEPT ![t] = IF buffer = << >> THEN "flush_unlock"
                                 ELSE "flush_bulk"]
    /\ UNCHANGED <<hlock, buffer, now, last_flush, nested, doc, records, manager>>
    /\ UNCHANGED <<config, stores>>

\* try: bulk(...) except: handleError(rec) for each record
\* finally: self._buffer.clear(); self._last_flush = time()   (lines 51-58):
\* the request made or failed, the buffer is emptied.
FlushBulk(t) ==
    /\ lpc[t] = "flush_bulk"
    /\ buffer' = << >>
    /\ last_flush' = now
    /\ lpc' = [lpc EXCEPT ![t] = "flush_unlock"]
    /\ UNCHANGED <<hlock, now, nested, doc, records, manager>>
    /\ UNCHANGED <<config, stores>>

\* the end of the with block of flush: the lock is released and flush
\* returns, to emit when emit called it.
FlushUnlock(t) ==
    /\ lpc[t] = "flush_unlock"
    /\ hlock' = NoThread
    /\ lpc' = [lpc EXCEPT ![t] = IF nested[t] THEN "emit_unlock" ELSE "idle"]
    /\ nested' = [nested EXCEPT ![t] = FALSE]
    /\ UNCHANGED <<buffer, now, last_flush, doc, records, manager>>
    /\ UNCHANGED <<config, stores>>

\* time() moves on.
Tick ==
    /\ now < MaxTime
    /\ now' = now + 1
    /\ UNCHANGED <<hlock, buffer, last_flush, lpc, nested, doc, records, manager>>
    /\ UNCHANGED <<config, stores>>

\* The steps of thread t inside the handler.
LogStep(t) ==
    \/ EmitCall(t)
    \/ EmitLock(t)
    \/ EmitAppend(t)
    \/ EmitTest(t)
    \/ EmitUnlock(t)
    \/ FlushCall(t)
    \/ FlushLock(t)
    \/ FlushTest(t)
    \/ FlushBulk(t)
    \/ FlushUnlock(t)

NextLog ==
    \/ \E t \in Workers : LogStep(t)
    \/ Tick

SpecLog == Init /\ [][NextLog]_vars

\* Every thread inside emit or flush gets to run, and a thread that waits
\* for the lock gets it when the lock comes free again and again.
SpecLogFair ==
    /\ Init
    /\ [][NextLog]_vars
    /\ \A t \in Workers :
          /\ WF_vars(EmitAppend(t) \/ EmitTest(t) \/ EmitUnlock(t)
                        \/ FlushTest(t) \/ FlushBulk(t) \/ FlushUnlock(t))
          /\ SF_vars(EmitLock(t) \/ FlushLock(t))

\* ------------------------------------------------------------ LogManager
\* def get_logger(cls)   (line 71)
GetLoggerCall(t) ==
    /\ gpc[t] = "idle"
    /\ lpc[t] = "idle"
    /\ gets < MaxGets
    /\ gets' = gets + 1
    /\ gpc' = [gpc EXCEPT ![t] = "check"]
    /\ UNCHANGED <<logger, handlers, lg, got, handler>>
    /\ UNCHANGED <<config, stores>>

\* if cls._logger is None:   (line 72): read with no lock held
GetLoggerCheck(t) ==
    /\ gpc[t] = "check"
    /\ gpc' = [gpc EXCEPT ![t] = IF logger = None THEN "configure"
                                 ELSE "return"]
    /\ UNCHANGED <<logger, handlers, lg, got, gets, handler>>
    /\ UNCHANGED <<config, stores>>

\* cfg = SentinelResponseConfig(); app_name = cfg.main.get("app_name", "app")
\* logger = logging.getLogger(app_name)   (lines 78-82): the configuration
\* is the instance in the slot; getLogger makes the logger of a name on the
\* first call and returns that same logger on every later one.
ConfigureGetLogger(t) ==
    /\ gpc[t] = "configure"
    /\ instance # 0
    /\ LET app_name == Get(heap[instance]["main"], "app_name", "app")
       IN  /\ lg' = [lg EXCEPT ![t] = app_name]
           /\ handlers' = IF app_name \in DOMAIN handlers THEN handlers
                          ELSE SetAttr(handlers, app_name, << >>)
    /\ gpc' = [gpc EXCEPT ![t] = "add_file"]
    /\ UNCHANGED <<logger, got, gets, handler>>
    /\ UNCHANGED <<config, stores>>

\* fh = RotatingFileHandler(...); logger.addHandler(fh)   (lines 88-97)
ConfigureFileHandler(t) ==
    /\ gpc[t] = "add_file"
    /\ handlers' = [handlers EXCEPT
                       ![lg[t]] = Append(@, "RotatingFileHandler")]
    /\ gpc' = [gpc EXCEPT ![t] = "add_more"]
    /\ UNCHANGED <<logger, lg, got, gets, handler>>
    /\ UNCHANGED <<config, stores>>

\* lines 99-136: the Sentry handler when the log section has a sentry_dsn,
\* the OpenSearch handler when it has opensearch_config hosts.
ConfigureMoreHandlers(t) ==
    /\ gpc[t] = "add_more"
    /\ LET log_cfg == heap[instance]["log"]
           sentry == IF "sentry_dsn" \in DOMAIN log_cfg
                     THEN <<"EventHandler">> ELSE << >>
           osh == IF "opensearch_config" \in DOMAIN log_cfg
                  THEN <<"_OpenSearchBulkHandler">> ELSE << >>
       IN  handlers' = [handlers EXCEPT ![lg[t]] = @ \o sentry \o osh]
    /\ gpc' = [gpc EXCEPT ![t] = "set"]
    /\ UNCHANGED <<logger, lg, got, gets, handler>>
    /\ UNCHANGED <<config, stores>>

\* cls._logger = logger   (line 138)
ConfigureSet(t) ==
    /\ gpc[t] = "set"
    /\ logger' = lg[t]
    /\ lg' = [lg EXCEPT ![t] = None]
    /\ gpc' = [gpc EXCEPT ![t] = "return"]
    /\ UNCHANGED <<handlers, got, gets, handler>>
    /\ UNCHANGED <<config, stores>>

\* return cls._logger   (line 74)
GetLoggerReturn(t) ==
    /\ gpc[t] = "return"
    /\ got' = [got EXCEPT ![t] = logger]
    /\ gpc' = [gpc EXCEPT ![t] = "idle"]
    /\ UNCHANGED <<logger, handlers, lg, gets, handler>>
    /\ UNCHANGED <<config, stores>>

\* The threads of a program whose configuration is loaded ask for the
\* logger.
NextLogger ==
    \E t \in Workers :
        \/ GetLoggerCall(t)
        \/ GetLoggerCheck(t)
        \/ ConfigureGetLogger(t)
        \/ ConfigureFileHandler(t)
        \/ ConfigureMoreHandlers(t)
        \/ ConfigureSet(t)
        \/ GetLoggerReturn(t)

SpecLogger == InitLoaded /\ [][NextLogger]_vars

\* ---------------------------------------------------------------- claims

\* C1: when the threads call getInstance against the empty slot and every
\* path they name exists, the file is loaded at most once, all references
\* handed out are the same object, and once every call has ended exactly
\* one load has been made.
C1_ConcurrentFirstConstruction ==
    ~newMissing =>
        /\ newLoads <= 1
        /\ Cardinality(returned) <= 1
        /\ (AllIdle /\ returned # {} => newLoads = 1)

\* Two callers raced for the construction (one found the slot filled only
\* under the lock), both have returned, and one load was made.
C1_Witness ==
    /\ lostRace
    /\ AllIdle
    /\ ~newMissing
    /\ newLoads = 1
    /\ Cardinality(returned) = 1

\* C2 (as the claim states it): a constructing call that raised the
\* not-found error has left the slot empty, and a later getInstance call
\* naming an existing path returns an instance that has its three sections.
C2_FailedLoadInstallsNothing ==
    /\ (last.op = "new" /\ last.kind = "FileNotFoundError" => instance = 0)
    /\ (newFailed /\ last.op = "new" /\ last.kind = "inst"
            /\ Exists(ResolvePath(last.arg, DEFAULT_PATH))
          => Sections \subseteq DOMAIN heap[last.obj])

\* C3: once a construction has succeeded, the slot holds that object, every
\* reference handed out is that object, and a getInstance call returns it
\* whatever path it names.
C3_SingletonIdentity ==
    constructed # 0 =>
        /\ instance = constructed
        /\ returned \subseteq {constructed}
        /\ (last.op = "new" => last.kind = "inst" /\ last.obj = constructed)

\* After the construction, a getInstance call naming a missing path has
\* returned the instance constructed first.
C3_Witness ==
    /\ constructed # 0
    /\ AllIdle
    /\ last.op = "new"
    /\ last.arg = "missing.toml"
    /\ last.kind = "inst"
    /\ last.obj = constructed

\* C4: when a reload has raised the not-found error, main, notification and
\* log of its receiver are what they were when the call began.
C4_FailedReloadKeepsValues ==
    (AllIdle /\ last.op = "reload" /\ last.kind = "FileNotFoundError")
        => Shown(heap[last.obj]) = Shown(pre)

\* A reload of an instance loaded from A.toml has failed, and the instance
\* still shows the sections of A.toml.
C4_Witness ==
    /\ AllIdle
    /\ last.op = "reload"
    /\ last.kind = "FileNotFoundError"
    /\ Shown(heap[last.obj]) = SectionsOf(BASE_CONFIG)

\* C5 (as the claim states it): between calls, the path recorded on the
\* constructed instance is the path of the load that completed last.
C5_SourcePathIsLastSuccessfulLoad ==
    (AllIdle /\ constructed # 0)
        => heap[constructed]["_toml_path"] = lastLoaded

\* C6: after a reload has raised the not-found error, the slot still holds
\* the receiver, which getInstance had handed out; a getInstance call after
\* it returns that object and a reload naming an existing path succeeds on
\* it.
C6_FailedReloadKeepsSingleton ==
    failedReload # 0 =>
        /\ instance = failedReload
        /\ failedReload \in returned
        /\ (last.op = "new" => last.kind = "inst" /\ last.obj = failedReload)
        /\ (last.op = "reload" /\ last.arg \in ExistingPaths
              => /\ last.kind = "ok"
                 /\ last.obj = failedReload
                 /\ Sections \subseteq DOMAIN heap[failedReload])

\* A reload has failed and a following reload of B.toml has succeeded on
\* the same instance, which the slot still holds.
C6_Witness ==
    /\ failedReload # 0
    /\ AllIdle
    /\ last.op = "reload"
    /\ last.arg = "B.toml"
    /\ last.kind = "ok"
    /\ last.obj = failedReload
    /\ instance = failedReload

\* C7: a getInstance call that finds an instance installed goes straight to
\* its return and changes no attribute, makes no load and leaves the slot
\* alone, and so does the return itself; an attribute of an object changes
\* only in a step of a reload or of the constructing call (the holder of the
\* lock, working on the only object ever allocated).
C7_FirstCallerWins ==
    [][/\ \A t \in Threads :
             (pc[t] = "idle" /\ op'[t] = "new" /\ instance # 0)
                 => /\ pc'[t] = "new_return"
                    /\ heap' = heap
                    /\ newLoads' = newLoads
                    /\ instance' = instance
       /\ \A t \in Threads :
             (pc[t] = "new_return" /\ pc'[t] = "idle")
                 => /\ heap' = heap
                    /\ newLoads' = newLoads
                    /\ instance' = instance
       /\ (heap' # heap =>
             \E t \in Threads :
                /\ pc'[t] # pc[t]
                /\ \/ op[t] = "reload"
                   \/ op[t] = "new" /\ lock = t /\ Len(heap') = 1)
      ]_vars

\* A getInstance call naming B.toml has returned the instance loaded from
\* A.toml, whose path and sections are still those of A.toml.
C7_Witness ==
    /\ AllIdle
    /\ last.op = "new"
    /\ last.arg = "B.toml"
    /\ last.kind = "inst"
    /\ heap[last.obj]["_toml_path"] = "A.toml"
    /\ Shown(heap[last.obj]) = SectionsOf(BASE_CONFIG)

\* C8: a reload with no argument works on the path of the constructing call
\* or of the last reload that named one: when it returns, the sections are
\* those of the present content of that file, and it raises the not-found
\* error only when that file does not exist.
C8_ReloadReusesLastPath ==
    [][\A t \in Threads :
          (op[t] = "reload" /\ arg[t] = None) =>
             /\ (pc[t] = "load_log" /\ pc'[t] = "idle"
                   => /\ path[t] = lastUsed
                      /\ Shown(heap'[self[t]]) = SectionsOf(fs[lastUsed]))
             /\ (pc[t] = "load" /\ pc'[t] = "idle" => ~Exists(lastUsed))
      ]_vars

\* After reload("B.toml") and a rewrite of B.toml, reload() has returned
\* and the instance shows the new content of B.toml.
C8_Witness ==
    /\ AllIdle
    /\ last.op = "reload"
    /\ last.arg = None
    /\ last.kind = "ok"
    /\ lastUsed = "B.toml"
    /\ heap[last.obj]["_toml_path"] = "B.toml"
    /\ fs["B.toml"] # InitialFs["B.toml"]
    /\ Shown(heap[last.obj]) = SectionsOf(fs["B.toml"])
    /\ Shown(pre) = SectionsOf(InitialFs["B.toml"])

\* C9: when reload(path) returns, each of main, notification and log is the
\* table of that name in the file at path, and the empty mapping when the
\* file has no such table: no value loaded before is left.
C9_ReloadReplacesValues ==
    [][\A t \in Threads :
          (op[t] = "reload" /\ arg[t] # None
              /\ pc[t] = "load_log" /\ pc'[t] = "idle")
            => \A s \in Sections :
                  /\ s \in DOMAIN heap'[self[t]]
                  /\ heap'[self[t]][s] =
                        IF s \in DOMAIN fs[arg[t]] THEN fs[arg[t]][s]
                        ELSE EmptyMap
      ]_vars

\* An instance constructed from A.toml has been reloaded from B.toml, which
\* has no notification table: the notification of A.toml is gone.
C9_Witness ==
    /\ AllIdle
    /\ last.op = "reload"
    /\ last.arg = "B.toml"
    /\ last.kind = "ok"
    /\ fs["B.toml"] = PARTIAL_CONFIG
    /\ Shown(pre) = SectionsOf(BASE_CONFIG)
    /\ heap[last.obj]["main"] = PARTIAL_CONFIG["main"]
    /\ heap[last.obj]["notification"] = EmptyMap
    /\ heap[last.obj]["log"] = EmptyMap

\* C10: every load that completes, in the constructing call or in a reload,
\* leaves the three sections equal to the tables of the file it read, with
\* the empty mapping for a table the file omits.
C10_SectionPopulation ==
    [][\A t \in Threads :
          (pc[t] = "load_log" /\ pc'[t] # "load_log")
            => Shown(heap'[self[t]]) = SectionsOf(fs[path[t]])
      ]_vars

\* The first call has constructed the instance from B.toml: main is the
\* table of the file, notification and log are empty mappings.
C10_Witness ==
    /\ AllIdle
    /\ calls = 1
    /\ last.op = "new"
    /\ last.arg = "B.toml"
    /\ last.kind = "inst"
    /\ Shown(heap[last.obj]) =
          [s \in Sections |->
              IF s = "main" THEN PARTIAL_CONFIG["main"] ELSE EmptyMap]

\* C11: a reload works in place.  No step of a reload changes which object
\* the slot holds, and when a reload returns, every reference getInstance
\* has handed out is the object in the slot and shows the path the reload
\* worked on and the three sections of the file at that path.
C11_ReloadInPlace ==
    [][\A t \in Threads :
          (op[t] = "reload" \/ op'[t] = "reload") =>
             /\ instance' = instance
             /\ (pc[t] = "load_log" /\ pc'[t] = "idle") =>
                   \A o \in returned :
                      /\ o = instance'
                      /\ o = self[t]
                      /\ heap'[o]["_toml_path"] = path[t]
                      /\ Shown(heap'[o]) = SectionsOf(fs[path[t]])
      ]_vars

\* The instance constructed from A.toml was handed out, then reloaded from
\* B.toml: the slot holds the same object, which now shows B.toml.
C11_Witness ==
    /\ AllIdle
    /\ last.op = "reload"
    /\ last.kind = "ok"
    /\ returned = {instance}
    /\ last.obj = instance
    /\ pre["_toml_path"] = "A.toml"
    /\ heap[instance]["_toml_path"] = "B.toml"
    /\ Shown(pre) = SectionsOf(fs["A.toml"])
    /\ Shown(heap[instance]) = SectionsOf(fs["B.toml"])

\* C12: at most one instance per process.  In every interleaving of the
\* threads' calls, failing loads included, at most one object is ever
\* allocated, the slot holds nothing or that object, and a slot that holds
\* an object keeps holding it.
C12_AtMostOneInstance ==
    [][/\ Len(heap') <= 1
       /\ instance' \in {0} \cup DOMAIN heap'
       /\ (instance # 0 => instance' = instance)
      ]_vars

\* A constructing call has failed its load, another caller that had seen
\* the empty slot found it filled under the lock, and every call has ended:
\* one object exists and the slot holds it.
C12_Witness ==
    /\ AllIdle
    /\ newFailed
    /\ lostRace
    /\ calls = MaxCalls
    /\ Len(heap) = 1
    /\ instance = 1

\* C14: the lock guards only construction.  Its holder is a thread inside
\* getInstance, past the unguarded check that found no instance and inside
\* the with block; when no thread is inside getInstance the lock is free; a
\* thread inside reload never holds it and always has a step it can take,
\* whoever holds the lock.
C14_LockGuardsOnlyConstruction ==
    /\ lock # NoThread =>
          /\ lock \in Threads
          /\ op[lock] = "new"
          /\ pc[lock] \in LockedPcs
    /\ (\A t \in Threads : op[t] # "new") => lock = NoThread
    /\ \A t \in Threads :
          op[t] = "reload" => (lock # t /\ ENABLED Step(t))

\* One thread holds the lock inside its constructing load while another
\* thread is inside a reload of the object the slot holds.
C14_Witness ==
    \E t, u \in Threads :
        /\ lock = t
        /\ pc[t] = "load_main"
        /\ op[u] = "reload"
        /\ pc[u] = "load_log"
        /\ self[u] = instance

\* C20 (as the claim states it): load before publish.  A slot that is not
\* empty holds an object whose main, notification and log are set, and every
\* reference getInstance has handed out is such an object.
C20_LoadBeforePublish ==
    /\ instance # 0 => Sections \subseteq DOMAIN heap[instance]
    /\ \A o \in returned : Sections \subseteq DOMAIN heap[o]

\* A statement of a call of thread t that is under way.
Run(t) == pc[t] # "idle" /\ Step(t)

\* The scheduler lets every thread that stays runnable run; threading.Lock
\* promises no order among the threads that wait for it.
SpecFair == Init /\ [][Next]_vars /\ \A t \in Workers : WF_vars(Run(t))

\* C13: no call blocks forever.  Under fair scheduling every getInstance
\* call and every reload call that a thread has begun ends (returns or
\* raises), also when the holder of the lock fails its load.
C13_NoCallBlocksForever ==
    \A t \in Workers : (pc[t] # "idle") ~> (pc[t] = "idle")

\* The holder of the lock has failed its load while another thread was
\* waiting at the with statement; the lock is free and the waiter can go on.
C13_Witness ==
    \E t, u \in Workers :
        /\ newFailed
        /\ pc[t] = "idle"
        /\ pc[u] = "new_lock"
        /\ lock = NoThread
        /\ instance # 0

\* C15: AlertManager.create_alert keeps the first alert.  The call raises
\* nothing; when the id of the alert is stored the store is left as it is;
\* otherwise the store gains that id with that alert and every other entry
\* stays.  No other manager is touched.
C15_CreateAlertKeepsFirst ==
    [][call'.op = "create_alert" =>
          LET alert == call'.params[1]
          IN  /\ call'.kind = "ok"
              /\ IF Has(alerts, alert.alert_id)
                 THEN alerts' = alerts
                 ELSE /\ Keys(alerts') = Keys(alerts) \cup {alert.alert_id}
                      /\ Lookup(alerts', alert.alert_id) = alert
                      /\ \A k \in Keys(alerts) :
                            Lookup(alerts', k) = Lookup(alerts, k)
              /\ UNCHANGED <<cases, users, tenants, events>>
      ]_vars

\* create_alert was given an alert whose id was taken by a different alert:
\* the store still holds the first one, next to another entry.
C15_Witness ==
    /\ call.op = "create_alert"
    /\ Len(alerts) = 2
    /\ Has(alerts, call.params[1].alert_id)
    /\ Lookup(alerts, call.params[1].alert_id) # call.params[1]

\* C16: in the four managers, read, update and delete of an id that is not
\* stored raise NotFoundError and leave the store as it is; read of a stored
\* id changes nothing, update of a stored id replaces that entry only and
\* delete of a stored id removes that entry only.  The stores of the other
\* managers stay as they are.
C16_NotFoundLeavesStore ==
    [][LET o == call'.op
           p == call'.params[1]
           Rule(d, e, read, update, delete, id) ==
               (o \in {read, update, delete}) =>
                  LET k == IF o = update THEN p[id] ELSE p
                  IN  IF ~Has(d, k)
                      THEN call'.kind = "NotFoundError" /\ e = d
                      ELSE /\ call'.kind = "ok"
                           /\ o = read => e = d
                           /\ o = update =>
                                 /\ Keys(e) = Keys(d)
                                 /\ Lookup(e, k) = p
                                 /\ \A j \in Keys(d) \ {k} :
                                       Lookup(e, j) = Lookup(d, j)
                           /\ o = delete =>
                                 /\ Keys(e) = Keys(d) \ {k}
                                 /\ \A j \in Keys(e) :
                                       Lookup(e, j) = Lookup(d, j)
           Rest(ops, others, others2) ==
               (o \in ops) => others2 = others
       IN  /\ Rule(alerts, alerts', "read_alert", "update_alert",
                   "delete_alert", "alert_id")
           /\ Rule(cases, cases', "read_case", "update_case",
                   "delete_case", "case_id")
           /\ Rule(users, users', "read_user", "update_user",
                   "delete_user", "user_id")
           /\ Rule(tenants, tenants', "read_tenant", "update_tenant",
                   "delete_tenant", "tenant_id")
           /\ Rest({"read_alert", "update_alert", "delete_alert"},
                   <<cases, users, tenants>>, <<cases', users', tenants'>>)
           /\ Rest({"read_case", "update_case", "delete_case"},
                   <<alerts, users, tenants>>, <<alerts', users', tenants'>>)
           /\ Rest({"read_user", "update_user", "delete_user"},
                   <<alerts, cases, tenants>>, <<alerts', cases', tenants'>>)
           /\ Rest({"read_tenant", "update_tenant", "delete_tenant"},
                   <<alerts, cases, users>>, <<alerts', cases', users'>>)
      ]_vars

\* With an alert, a case and a tenant stored, update_tenant was given a
\* tenant whose id is not stored: NotFoundError, and the id is still absent.
C16_Witness ==
    /\ call.op = "update_tenant"
    /\ call.kind = "NotFoundError"
    /\ Len(alerts) = 1
    /\ Len(cases) = 1
    /\ Len(tenants) = 1
    /\ ~Has(tenants, call.params[1].tenant_id)

\* C17: the default correlation rule.  correlate_alerts_to_cases returns
\* one new case for each stored alert that no stored case held (by id) when
\* the call began and whose severity is "alta" in any letter case, and for
\* no other alert; the case of alert a has id a.alert_id + 1000 and holds a
\* alone, and the CaseManager holds it under that id after the call; the
\* AlertManager is left as it is.
C17_DefaultCorrelationRule ==
    [][call'.op = "correlate_alerts_to_cases" =>
          LET InSomeCase(a) ==
                  \E i \in DOMAIN cases : \E j \in DOMAIN cases[i].val.alerts :
                      cases[i].val.alerts[j].alert_id = a.alert_id
              IsAlta(a) == a.severity \in {"alta", "ALTA"}
              eligible == {a \in Range(Values(alerts)) :
                              ~InSomeCase(a) /\ IsAlta(a)}
              new_cases == call'.ret
          IN  /\ call'.kind = "ok"
              /\ Len(new_cases) = Cardinality(eligible)
              /\ Range(new_cases) =
                    {Case(a.alert_id + 1000, <<a>>) : a \in eligible}
              /\ \A c \in Range(new_cases) :
                    /\ Has(cases', c.case_id)
                    /\ Lookup(cases', c.case_id) = c
              /\ alerts' = alerts
      ]_vars

\* Two alerts were stored, one of severity "alta" held by a case opened by
\* hand and one of severity "ALTA" held by none: the call returned one case,
\* for the second alert, and the CaseManager now holds both cases.
C17_Witness ==
    /\ call.op = "correlate_alerts_to_cases"
    /\ Len(alerts) = 2
    /\ Len(call.ret) = 1
    /\ call.ret[1].alerts[1].severity = "ALTA"
    /\ call.ret[1].case_id = call.ret[1].alerts[1].alert_id + 1000
    /\ Len(cases) = 2
    /\ cases[1].val.alerts # << >>
    /\ cases[1].val.alerts[1].severity = "alta"
    /\ cases[2].val = call.ret[1]

\* C18: remove_correlation_for_alert(alert_id) raises nothing and leaves
\* the AlertManager alone.  When no case holds an alert with the id, the
\* cases stay as they are; otherwise the first case, in the order of the
\* CaseManager, that holds one loses its first alert with the id, is deleted
\* when that leaves it empty, and every other case stays as it is.
C18_RemoveCorrelation ==
    [][call'.op = "remove_correlation_for_alert" =>
          LET alert_id == call'.params[1]
              Holds(c) == \E j \in DOMAIN c.alerts : c.alerts[j].alert_id = alert_id
              holders == {i \in DOMAIN cases : Holds(cases[i].val)}
          IN  /\ call'.kind = "ok"
              /\ alerts' = alerts
              /\ IF holders = {}
                 THEN cases' = cases
                 ELSE LET i == CHOOSE h \in holders : \A g \in holders : h <= g
                          as == cases[i].val.alerts
                          j == CHOOSE h \in DOMAIN as :
                                  /\ as[h].alert_id = alert_id
                                  /\ \A g \in DOMAIN as :
                                        as[g].alert_id = alert_id => h <= g
                          left == [h \in 1 .. (Len(as) - 1) |->
                                      IF h < j THEN as[h] ELSE as[h + 1]]
                      IN  IF left = << >>
                          THEN /\ Len(cases') = Len(cases) - 1
                               /\ \A h \in DOMAIN cases' :
                                     cases'[h] = IF h < i THEN cases[h]
                                                 ELSE cases[h + 1]
                          ELSE /\ Len(cases') = Len(cases)
                               /\ cases'[i].val.alerts = left
                               /\ cases'[i].val.case_id = cases[i].val.case_id
                               /\ cases'[i].key = cases[i].key
                               /\ \A h \in DOMAIN cases \ {i} :
                                     cases'[h] = cases[h]
      ]_vars

\* Two cases held alert 1, the one made by the engine coming first in the
\* CaseManager: remove_correlation_for_alert(1) has emptied and deleted it,
\* and the case opened by hand still holds the alert.
C18_Witness ==
    /\ call.op = "remove_correlation_for_alert"
    /\ call.params = <<1>>
    /\ Has(alerts, 1)
    /\ Len(cases) = 1
    /\ cases[1].key = 1
    /\ cases[1].val.alerts = <<Lookup(alerts, 1)>>

\* C19 (as the claim states it): the timeline is kept sorted.  The stored
\* list of events is in ascending order of timestamp after every call, and
\* the list read_events has just returned is in ascending order and holds
\* the stored events, each as many times as it is stored.
C19_TimelineSorted ==
    LET Ascending(s) ==
            \A i \in DOMAIN s : \A j \in DOMAIN s : i < j => s[i][1] <= s[j][1]
        Count(s, e) == Cardinality({i \in DOMAIN s : s[i] = e})
    IN  /\ Ascending(events)
        /\ call.op = "read_events" =>
              /\ Ascending(call.ret)
              /\ Len(call.ret) = Len(events)
              /\ \A e \in Range(events) : Count(call.ret, e) = Count(events, e)

\* C21 (as the claim states it): reloads are serialized.  Once the reloads
\* the threads ran side by side have all ended, the recorded path and the
\* three sections come from one file: the sections are those of the file at
\* the recorded path, when that file exists.
C21_ReloadsSerialized ==
    (AllIdle /\ Exists(heap[instance]["_toml_path"]))
        => Shown(heap[instance]) = SectionsOf(fs[heap[instance]["_toml_path"]])

C23_ResetHook ==
    [][/\ (instance # 0 /\ instance' = 0) => heap' = heap
       /\ \A t \in Threads :
             /\ (pc[t] = "idle" /\ op'[t] = "new" /\ instance = 0)
                   => pc'[t] = "new_lock"
             /\ (pc[t] = "new_alloc" /\ pc'[t] = "new_setpath") =>
                   /\ instance' \notin DOMAIN heap
                   /\ instance' \notin returned
                   /\ instance' \in DOMAIN heap'
                   /\ \A o \in DOMAIN heap : heap'[o] = heap[o]
             /\ (op[t] = "new" /\ pc[t] = "load_log" /\ pc'[t] = "new_return")
                   => Shown(heap'[instance]) = SectionsOf(fs[path[t]])
             /\ (t = Main /\ pc[t] = "new_return" /\ pc'[t] = "idle")
                   => last'.obj = instance
       /\ \A o \in DOMAIN heap :
             (o \in DOMAIN heap' /\ heap'[o] # heap[o]) =>
                \E t \in Threads :
                   /\ pc'[t] # pc[t]
                   /\ \/ op[t] = "reload" /\ self[t] = o
                      \/ op[t] = "new" /\ lock = t /\ instance = o
      ]_vars

\* An instance was constructed from A.toml and handed out, the slot was
\* cleared, a second instance was constructed from A.toml and then reloaded
\* from B.toml: the first object still shows A.toml, the second B.toml.
C23_Witness ==
    /\ AllIdle
    /\ Len(heap) = 2
    /\ instance = 2
    /\ returned = {1, 2}
    /\ last.op = "reload"
    /\ last.kind = "ok"
    /\ last.obj = 2
    /\ Shown(pre) = SectionsOf(BASE_CONFIG)
    /\ Shown(heap[1]) = SectionsOf(BASE_CONFIG)
    /\ Shown(heap[2]) = SectionsOf(PARTIAL_CONFIG)

\* C24: a call of correlate_alerts_to_cases or of correlate_alerts_with_rule
\* replaces and removes no stored case: every case stored before the call
\* is stored unchanged, at its place, after it, also when a stored case has
\* the id alert_id + 1000 of an alert the call opens a case for.
C24_CorrelateKeepsCases ==
    [][(call'.op \in {"correlate_alerts_to_cases",
                      "correlate_alerts_with_rule"})
          => /\ Len(cases') >= Len(cases)
             /\ \A i \in DOMAIN cases : cases'[i] = cases[i]
      ]_vars

\* C25: correlation is idempotent.  A call of correlate_alerts_to_cases
\* that comes right after another returns the empty list and leaves the
\* stored cases as they are; and the call of correlate_alerts_to_cases that
\* comes right after remove_correlation_for_alert of a stored alert of
\* severity "alta" returns a case opened for that alert.
C25_CorrelateIdempotent ==
    [][/\ (/\ call.op = "correlate_alerts_to_cases"
           /\ call'.op = "correlate_alerts_to_cases")
             => /\ call'.ret = << >>
                /\ cases' = cases
       /\ (/\ call.op = "remove_correlation_for_alert"
           /\ call'.op = "correlate_alerts_to_cases"
           /\ Has(alerts, call.params[1])
           /\ Lower(Lookup(alerts, call.params[1]).severity) = "alta")
             => \E j \in DOMAIN call'.ret :
                   call.params[1] \in
                      {call'.ret[j].alerts[k].alert_id :
                          k \in DOMAIN call'.ret[j].alerts}
      ]_vars

\* C26: emit always returns.  A thread inside emit or flush gets back out
\* of it, whatever the record: no thread waits for ever for the lock of
\* the handler; and when an emit returns the buffer holds no more than
\* batch_size documents.
C26_EmitReturns ==
    /\ \A t \in Workers : (lpc[t] # "idle") ~> (lpc[t] = "idle")
    /\ [][\A t \in Workers :
             (lpc[t] = "emit_unlock" /\ lpc'[t] = "idle")
                => Len(buffer') <= BatchSize]_vars

\* C27: LogManager configures the logger at most once.  Whatever the
\* interleaving of the get_logger calls, no logger has more than one
\* rotating file handler, the logger in LogManager._logger has exactly one,
\* every call returns the same logger, and a step of a call that began
\* after the logger was set adds no handler.
C27_ConfiguredOnce ==
    /\ [](/\ \A name \in DOMAIN handlers :
                Cardinality({i \in DOMAIN handlers[name] :
                    handlers[name][i] = "RotatingFileHandler"}) <= 1
          /\ logger # None =>
                Cardinality({i \in DOMAIN handlers[logger] :
                    handlers[logger][i] = "RotatingFileHandler"}) = 1
          /\ \A t \in Workers, u \in Workers :
                (got[t] # None /\ got[u] # None) => got[t] = got[u])
    /\ [][\A t \in Workers :
             (gpc[t] = "check" /\ logger # None /\ gpc'[t] # "check")
                => gpc'[t] = "return" /\ handlers' = handlers]_vars

====
